---------------------------- MODULE Spec2Model ----------------------------
(***************************************************************************)
(* Model of the BIDS post-processor: src/data_to_bids/post_process_core.py *)
(* and its command line src/data_to_bids/post_process_cli.py.              *)
(*                                                                         *)
(* Python strings are sequences of one-character strings, so that `in`,    *)
(* str.replace, str.startswith, sorted() and glob patterns are computed    *)
(* character by character, as the interpreter computes them.               *)
(***************************************************************************)
EXTENDS Integers, Sequences, FiniteSets, TLC

----------------------------------------------------------------------------
(* String literals of the source. *)

SUB_ == <<"s","u","b","-">>
SES_ == <<"s","e","s","-">>
FIELDMAP1 == <<"f","i","e","l","d","m","a","p","1">>
FIELDMAP2 == <<"f","i","e","l","d","m","a","p","2">>
MAGNITUDE == <<"m","a","g","n","i","t","u","d","e">>
FIELDMAP == <<"f","i","e","l","d","m","a","p">>
FILENAME == <<"f","i","l","e","n","a","m","e">>
FMAP == <<"f","m","a","p">>
FUNC == <<"f","u","n","c">>
BIDS_URI == <<"b","i","d","s",":",":">>
BOLD_SUFFIX == <<"_","b","o","l","d",".","n","i","i",".","g","z">>
SCANS_SUFFIX == <<"_","s","c","a","n","s",".","t","s","v">>
FIELDMAP_JSON == <<"_","f","i","e","l","d","m","a","p",".","j","s","o","n">>
INTENDED_FOR == <<"I","n","t","e","n","d","e","d","F","o","r">>
B0_FIELD_IDENTIFIER ==
    <<"B","0","F","i","e","l","d","I","d","e","n","t","i","f","i","e","r">>
B0MAP_FMAP0 == <<"b","0","m","a","p","_","f","m","a","p","0">>

----------------------------------------------------------------------------
(* Python str operations. *)

\* s.startswith(p)
startswith(s, p) == Len(p) <= Len(s) /\ SubSeq(s, 1, Len(p)) = p

\* s.endswith(p)
endswith(s, p) == Len(p) <= Len(s) /\ SubSeq(s, Len(s) - Len(p) + 1, Len(s)) = p

\* p in s
contains(s, p) == \E i \in 1..(Len(s) - Len(p) + 1) : SubSeq(s, i, i + Len(p) - 1) = p

\* s.replace(old, new): every non-overlapping occurrence, leftmost first
\* (old is never empty here).
RECURSIVE replace(_, _, _)
replace(s, old, new) ==
    IF Len(s) < Len(old) THEN s
    ELSE IF SubSeq(s, 1, Len(old)) = old
         THEN new \o replace(SubSeq(s, Len(old) + 1, Len(s)), old, new)
         ELSE <<s[1]>> \o replace(Tail(s), old, new)

\* ord(c) for the characters the model's names are written with.
ord(c) ==
    CASE c = "-" -> 45 [] c = "." -> 46 [] c = "/" -> 47
      [] c = "0" -> 48 [] c = "1" -> 49 [] c = "2" -> 50 [] c = ":" -> 58
      [] c = "B" -> 66 [] c = "F" -> 70 [] c = "I" -> 73 [] c = "y" -> 121
      [] c = "\\" -> 92 [] c = "_" -> 95
      [] c = "a" -> 97 [] c = "b" -> 98 [] c = "c" -> 99 [] c = "d" -> 100
      [] c = "e" -> 101 [] c = "f" -> 102 [] c = "g" -> 103 [] c = "i" -> 105
      [] c = "j" -> 106 [] c = "l" -> 108 [] c = "m" -> 109 [] c = "n" -> 110
      [] c = "o" -> 111 [] c = "p" -> 112 [] c = "h" -> 104 [] c = "r" -> 114 [] c = "s" -> 115
      [] c = "t" -> 116 [] c = "u" -> 117 [] c = "v" -> 118 [] c = "x" -> 120
      [] c = "z" -> 122

\* a < b for str: the first differing character decides, a proper prefix is less.
RECURSIVE str_lt(_, _)
str_lt(a, b) ==
    IF b = <<>> THEN FALSE
    ELSE IF a = <<>> THEN TRUE
    ELSE IF a[1] = b[1] THEN str_lt(Tail(a), Tail(b))
    ELSE ord(a[1]) < ord(b[1])

\* sorted(S) for a collection of distinct strings.
RECURSIVE sorted(_)
sorted(S) ==
    IF S = {} THEN <<>>
    ELSE LET m == CHOOSE x \in S : \A y \in S \ {x} : str_lt(x, y)
         IN <<m>> \o sorted(S \ {m})

----------------------------------------------------------------------------
(* Identifier normalization. *)

\* (mutant) the prefix test left out
normalize_subject_always(s) == SUB_ \o s

normalize_subject(s) == IF startswith(s, SUB_) THEN s ELSE SUB_ \o s

normalize_session(s) == IF startswith(s, SES_) THEN s ELSE SES_ \o s

----------------------------------------------------------------------------
(* The dataset tree.  A path is the sequence of its components below the   *)
(* base directory (os.path.join appends one); the tree maps every existing *)
(* path to its node.  A regular file holds a table (fmt "tsv": a header    *)
(* and rows of cells, the text between the tabs), a JSON object (fmt       *)
(* "json": its members in file order, a key may repeat) or other bytes     *)
(* (fmt "raw", told apart by id).                                          *)

Dir == [kind |-> "dir", fmt |-> "", header |-> <<>>, rows |-> <<>>,
        members |-> <<>>, id |-> <<>>]

RawFile(i) == [kind |-> "file", fmt |-> "raw", header |-> <<>>, rows |-> <<>>,
               members |-> <<>>, id |-> i]

TsvFile(h, r) == [kind |-> "file", fmt |-> "tsv", header |-> h, rows |-> r,
                  members |-> <<>>, id |-> <<>>]

JsonFile(m) == [kind |-> "file", fmt |-> "json", header |-> <<>>, rows |-> <<>>,
                members |-> m, id |-> <<>>]

\* os.path.join(p, c)
join(p, c) == Append(p, c)

\* os.path.basename(p)
basename(p) == p[Len(p)]

\* os.path.exists(p), os.path.isdir(p), os.path.isfile(p)
exists(t, p) == p \in DOMAIN t
isdir(t, p) == p \in DOMAIN t /\ t[p].kind = "dir"
isfile(t, p) == p \in DOMAIN t /\ t[p].kind = "file"

\* os.listdir(p): the names of the entries of directory p
listdir(t, p) ==
    {q[Len(q)] : q \in {r \in DOMAIN t : Len(r) = Len(p) + 1 /\ SubSeq(r, 1, Len(p)) = p}}

\* os.rename(src, dst) of a regular file: dst names the file afterwards and
\* src is gone (POSIX rename replaces a file that dst names).
os_rename(t, src, dst) ==
    [q \in (DOMAIN t \ {src}) \cup {dst} |-> IF q = dst THEN t[src] ELSE t[q]]

\* open(p, "w") and write: p holds node n afterwards
write_file(t, p, n) == [q \in DOMAIN t \cup {p} |-> IF q = p THEN n ELSE t[q]]

\* glob.glob(os.path.join(p, "*" + suffix)): the entries of p whose name ends
\* in suffix; a "*" at the start of a pattern matches no name starting with "."
glob_suffix(t, p, suffix) ==
    {join(p, n) : n \in {m \in listdir(t, p) : endswith(m, suffix) /\ m[1] # "."}}

\* glob.glob(os.path.join(p, prefix + "*")): the entries whose name starts with prefix
glob_prefix(t, p, prefix) ==
    {join(p, n) : n \in {m \in listdir(t, p) : startswith(m, prefix)}}

\* (mutant) the paths by name, last first
sorted_paths_reversed(p, S) ==
    LET names == sorted({basename(q) : q \in S})
    IN [i \in 1..Len(names) |-> join(p, names[Len(names) + 1 - i])]

\* sorted() of paths in one directory: by name
sorted_paths(p, S) ==
    LET names == sorted({basename(q) : q \in S})
    IN [i \in 1..Len(names) |-> join(p, names[i])]

\* print(...) and the file operations performed, in order: what was reported
\* or done (ev), to which path (a), with which target (b) or row count (n)
Event(e, pa, pb, k) == [ev |-> e, a |-> pa, b |-> pb, n |-> k]

Say(st, e, pa, pb, k) == [st EXCEPT !.out = Append(@, Event(e, pa, pb, k))]

\* What a pass works on: the tree, the output so far, the paths on which the
\* OS refuses a change to the running process (denied), the number of file
\* operations the process still completes before it is terminated from
\* outside (kill_at; -1: it is not), and how control left the last statement:
\* "" normally, "OSError" with that exception raised and not yet caught,
\* "killed" with the process gone.
State(t, o, d, k) == [fs |-> t, out |-> o, denied |-> d, kill_at |-> k, halt |-> ""]

\* an exception is propagating or the process is gone: no statement follows
halted(st) == st.halt # ""

\* A call that changes path p, leaving tree t when the OS performs it
\* (os.rename, open(p, "w") and the write): the process may be terminated
\* before the call, or the OS may refuse it and the call raises OSError.
file_op(st, p, t) ==
    IF st.kill_at = 0 THEN [st EXCEPT !.halt = "killed"]
    ELSE IF p \in st.denied THEN [st EXCEPT !.halt = "OSError"]
    ELSE [st EXCEPT !.fs = t, !.kill_at = IF @ > 0 THEN @ - 1 ELSE @]

\* (mutant) no except clause around the file
caught_never(st) == st

\* lines 149-150, 215-216: except Exception ends the exception here
caught(st) == IF st.halt = "OSError" THEN [st EXCEPT !.halt = ""] ELSE st

----------------------------------------------------------------------------
(* Session resolution. *)

\* iter_session_paths: the generator's steps in order, a yielded session
\* directory (yield = TRUE) or a reported missing one.  No pass creates or
\* removes a session directory, so the steps are those of the tree at the
\* time the subject is reached.
\* (mutant) the generator ends at the first requested session that is missing
RECURSIVE iter_filter_stopping(_, _, _)
iter_filter_stopping(t, subject_path, sessions_filter) ==
    IF sessions_filter = <<>> THEN <<>>
    ELSE LET ses_path == join(subject_path, Head(sessions_filter))
         IN IF isdir(t, ses_path)
            THEN <<[yield |-> TRUE, path |-> ses_path]>>
                 \o iter_filter_stopping(t, subject_path, Tail(sessions_filter))
            ELSE <<[yield |-> FALSE, path |-> ses_path]>>

RECURSIVE iter_filter(_, _, _)
iter_filter(t, subject_path, sessions_filter) ==
    IF sessions_filter = <<>> THEN <<>>
    ELSE LET ses_path == join(subject_path, Head(sessions_filter))
         IN <<[yield |-> isdir(t, ses_path), path |-> ses_path]>>
            \o iter_filter(t, subject_path, Tail(sessions_filter))

iter_session_paths(t, subject_path, sessions_filter) ==
    IF sessions_filter # <<>>
    THEN iter_filter(t, subject_path, sessions_filter)
    ELSE LET found == sorted_paths(subject_path, glob_prefix(t, subject_path, SES_))
         IN [i \in 1..Len(SelectSeq(found, LAMBDA p : isdir(t, p))) |->
                [yield |-> TRUE, path |-> SelectSeq(found, LAMBDA p : isdir(t, p))[i]]]

----------------------------------------------------------------------------
(* File Renamer. *)

\* lines 86-91: the rule a name falls under (0: none)
rename_rule(filename) ==
    IF contains(filename, FIELDMAP1) THEN 1
    ELSE IF contains(filename, FIELDMAP2) THEN 2
    ELSE 0

new_filename(filename) ==
    IF rename_rule(filename) = 1 THEN replace(filename, FIELDMAP1, MAGNITUDE)
    ELSE IF rename_rule(filename) = 2 THEN replace(filename, FIELDMAP2, FIELDMAP)
    ELSE filename

\* (mutant) the collision test left out
target_exists_never(t, dst_path) == FALSE

\* lines 95-97: the collision test
target_exists(t, dst_path) == exists(t, dst_path)

\* (mutant) dry_run not looked at
do_rename_always(st, src_path, dst_path, dry_run) ==
    file_op(Say(st, "Renaming", src_path, dst_path, 0), src_path,
            os_rename(st.fs, src_path, dst_path))

\* (mutant) the rename inside a try block of its own
do_rename_caught(st, src_path, dst_path, dry_run) ==
    IF dry_run THEN Say(st, "Would rename", src_path, dst_path, 0)
    ELSE caught(file_op(Say(st, "Renaming", src_path, dst_path, 0), src_path,
                        os_rename(st.fs, src_path, dst_path)))

\* lines 99-103
do_rename(st, src_path, dst_path, dry_run) ==
    IF dry_run THEN Say(st, "Would rename", src_path, dst_path, 0)
    ELSE file_op(Say(st, "Renaming", src_path, dst_path, 0), src_path,
                 os_rename(st.fs, src_path, dst_path))

\* lines 82-103: one name of the listing
rename_one(st, fmap_dir, filename, dry_run) ==
    LET src_path == join(fmap_dir, filename)
        dst_path == join(fmap_dir, new_filename(filename))
    IN IF ~isfile(st.fs, src_path) THEN st
       ELSE IF rename_rule(filename) = 0 THEN st
       ELSE IF target_exists(st.fs, dst_path)
            THEN Say(st, "Skip rename (target exists)", src_path, dst_path, 0)
       ELSE do_rename(st, src_path, dst_path, dry_run)

\* line 81: the loop over the listing taken when the directory is entered
RECURSIVE rename_listing(_, _, _, _)
rename_listing(st, fmap_dir, listing, dry_run) ==
    IF listing = <<>> \/ halted(st) THEN st
    ELSE rename_listing(rename_one(st, fmap_dir, Head(listing), dry_run),
                        fmap_dir, Tail(listing), dry_run)

\* lines 77-103: one session directory
rename_session(st, ses_path, dry_run) ==
    LET fmap_dir == join(ses_path, FMAP)
    IN IF ~isdir(st.fs, fmap_dir) THEN st
       ELSE rename_listing(st, fmap_dir, sorted(listdir(st.fs, fmap_dir)), dry_run)

RECURSIVE rename_sessions(_, _, _)
rename_sessions(st, steps, dry_run) ==
    IF steps = <<>> \/ halted(st) THEN st
    ELSE rename_sessions(
            IF Head(steps).yield
            THEN rename_session(st, Head(steps).path, dry_run)
            ELSE Say(st, "Session directory not found", Head(steps).path, <<>>, 0),
            Tail(steps), dry_run)

RECURSIVE rename_fieldmap_files(_, _, _, _)
rename_fieldmap_files(st, subjects, sessions_filter, dry_run) ==
    IF subjects = <<>> \/ halted(st) THEN st
    ELSE LET subject_path == <<Head(subjects)>>
         IN rename_fieldmap_files(
               IF ~isdir(st.fs, subject_path)
               THEN Say(st, "Directory not found", subject_path, <<>>, 0)
               ELSE rename_sessions(st,
                        iter_session_paths(st.fs, subject_path, sessions_filter), dry_run),
               Tail(subjects), sessions_filter, dry_run)

----------------------------------------------------------------------------
(* Scan-Table Updater.  pandas reads a table column by column: a cell that *)
(* is one of the default missing-value markers is NaN; a column whose      *)
(* other cells are all decimal integers is int64, or float64 when a cell   *)
(* is NaN; any other column keeps its text (object).  to_csv writes NaN as *)
(* the empty field, an int64 without leading zeros and a float64 with its  *)
(* fraction.  Tables are rectangular with distinct, non-empty column names *)
(* (what the converter produces); other number formats are not drawn.      *)

NA == <<"n","/","a">>
EMPTY == <<>>

\* read_csv's default na_values that the model's cells can spell
na_values == {EMPTY, NA}

is_digits(c) == c # <<>> /\ \A i \in 1..Len(c) : c[i] \in {"0", "1", "2"}

\* str(int(c))
RECURSIVE int_text(_)
int_text(c) == IF Len(c) > 1 /\ c[1] = "0" THEN int_text(Tail(c)) ELSE c

\* the dtype read_csv infers for a column
dtype_of(cells) ==
    LET present == {i \in 1..Len(cells) : cells[i] \notin na_values}
    IN IF Len(cells) = 0 THEN "object"
       ELSE IF \A i \in present : is_digits(cells[i])
            THEN (IF present = 1..Len(cells) THEN "int64" ELSE "float64")
       ELSE "object"

\* a parsed cell: missing (na), or the text to_csv writes for its value
parse_cell(dtype, c) ==
    IF c \in na_values THEN [na |-> TRUE, s |-> <<>>]
    ELSE IF dtype = "int64" THEN [na |-> FALSE, s |-> int_text(c)]
    ELSE IF dtype = "float64" THEN [na |-> FALSE, s |-> int_text(c) \o <<".", "0">>]
    ELSE [na |-> FALSE, s |-> c]

column(rows, j) == [i \in 1..Len(rows) |-> rows[i][j]]

\* skip_blank_lines: a line with no character at all is no row (it can only
\* be one in a table of a single column)
rows_read(node) ==
    IF Len(node.header) = 1 THEN SelectSeq(node.rows, LAMBDA r : r # <<EMPTY>>)
    ELSE node.rows

\* pd.read_csv(tsv_file, sep="\t"): the frame, column by column
read_csv(node) ==
    LET rows == rows_read(node)
    IN [columns |-> node.header,
        dtypes |-> [j \in 1..Len(node.header) |-> dtype_of(column(rows, j))],
        data |-> [j \in 1..Len(node.header) |->
                    [i \in 1..Len(rows) |->
                        parse_cell(dtype_of(column(rows, j)), rows[i][j])]]]

\* read_csv raises on what is not a readable table (a directory, other bytes)
read_csv_raises(t, p) == ~(isfile(t, p) /\ t[p].fmt = "tsv")

\* df.to_csv(tsv_file, sep="\t", index=False)
to_csv(df) ==
    TsvFile(df.columns,
            [i \in 1..(IF Len(df.columns) = 0 THEN 0 ELSE Len(df.data[1])) |->
                [j \in 1..Len(df.columns) |->
                    IF df.data[j][i].na THEN EMPTY ELSE df.data[j][i].s]])

col_index(df, name) == CHOOSE j \in 1..Len(df.columns) : df.columns[j] = name

\* Series.str.replace(old, new, regex=False): NaN stays NaN
str_replace(series, old, new) ==
    [i \in 1..Len(series) |->
        IF series[i].na THEN series[i] ELSE [na |-> FALSE, s |-> replace(series[i].s, old, new)]]

\* lines 134-135
replace_tokens(series) ==
    str_replace(str_replace(series, FIELDMAP1, MAGNITUDE), FIELDMAP2, FIELDMAP)

\* (df["filename"] != original).sum(): NaN differs from NaN
changed_rows(series, original) ==
    Cardinality({i \in 1..Len(series) : series[i].na \/ series[i] # original[i]})

\* lines 143-147
write_tsv(st, tsv_file, df, n, dry_run) ==
    IF dry_run THEN Say(st, "Would update TSV", tsv_file, <<>>, n)
    ELSE file_op(Say(st, "Updating TSV", tsv_file, <<>>, n), tsv_file,
                 write_file(st.fs, tsv_file, to_csv(df)))

\* lines 149-150: what the except clause makes of the try block's outcome
except_tsv(st, tsv_file) ==
    IF st.halt = "OSError"
    THEN Say(caught(st), "Error processing", tsv_file, <<>>, 0)
    ELSE st

\* lines 125-150: one manifest
update_one_tsv(st, tsv_file, dry_run) ==
    IF read_csv_raises(st.fs, tsv_file)
    THEN Say(st, "Error processing", tsv_file, <<>>, 0)
    ELSE LET df == read_csv(st.fs[tsv_file])
         IN IF ~\E j \in 1..Len(df.columns) : df.columns[j] = FILENAME
            THEN Say(st, "'filename' column not found", tsv_file, <<>>, 0)
            ELSE LET k == col_index(df, FILENAME)
                     original == df.data[k]
                 IN \* .str on a column that is not text raises AttributeError
                    IF df.dtypes[k] # "object"
                    THEN Say(st, "Error processing", tsv_file, <<>>, 0)
                    ELSE LET updated == replace_tokens(original)
                             df2 == [df EXCEPT !.data[k] = updated]
                         IN IF updated = original
                            THEN Say(st, "No changes needed", tsv_file, <<>>, 0)
                            ELSE except_tsv(
                                    write_tsv(st, tsv_file, df2,
                                              changed_rows(updated, original), dry_run),
                                    tsv_file)

RECURSIVE scans_listing(_, _, _)
scans_listing(st, listing, dry_run) ==
    IF listing = <<>> \/ halted(st) THEN st
    ELSE scans_listing(update_one_tsv(st, Head(listing), dry_run), Tail(listing), dry_run)

\* line 124: one session directory
scans_session(st, ses_path, dry_run) ==
    scans_listing(st, sorted_paths(ses_path, glob_suffix(st.fs, ses_path, SCANS_SUFFIX)),
                  dry_run)

RECURSIVE scans_sessions(_, _, _)
scans_sessions(st, steps, dry_run) ==
    IF steps = <<>> \/ halted(st) THEN st
    ELSE scans_sessions(
            IF Head(steps).yield
            THEN scans_session(st, Head(steps).path, dry_run)
            ELSE Say(st, "Session directory not found", Head(steps).path, <<>>, 0),
            Tail(steps), dry_run)

RECURSIVE update_scans_tsv(_, _, _, _)
update_scans_tsv(st, subjects, sessions_filter, dry_run) ==
    IF subjects = <<>> \/ halted(st) THEN st
    ELSE LET subject_path == <<Head(subjects)>>
         IN update_scans_tsv(
               IF ~isdir(st.fs, subject_path)
               THEN Say(st, "Directory not found", subject_path, <<>>, 0)
               ELSE scans_sessions(st,
                        iter_session_paths(st.fs, subject_path, sessions_filter), dry_run),
               Tail(subjects), sessions_filter, dry_run)

----------------------------------------------------------------------------
(* Sidecar Metadata Updater.  A JSON value is a string (ty "str", v its    *)
(* one text), a number (ty "num") or a list of strings (ty "list").        *)

JStr(x) == [ty |-> "str", v |-> <<x>>]
JList(xs) == [ty |-> "list", v |-> xs]
Member(k, x) == [key |-> k, val |-> x]

\* dict assignment d[k] = x: a present key keeps its place and takes the new
\* value, a new key goes last
dict_set(d, k, x) ==
    IF \E i \in 1..Len(d) : d[i].key = k
    THEN [i \in 1..Len(d) |-> IF d[i].key = k THEN Member(k, x) ELSE d[i]]
    ELSE Append(d, Member(k, x))

\* json.load(f): the members in file order, a repeated key keeping its last value
RECURSIVE dict_of(_, _)
dict_of(d, members) ==
    IF members = <<>> THEN d
    ELSE dict_of(dict_set(d, Head(members).key, Head(members).val), Tail(members))

json_load(node) == dict_of(<<>>, node.members)

\* json.load raises on what is not a readable JSON object
json_load_raises(t, p) == ~(isfile(t, p) /\ t[p].fmt = "json")

\* dict == dict: the same keys with the same values, in any order
dict_eq(d, e) == {d[i] : i \in 1..Len(d)} = {e[i] : i \in 1..Len(e)}

\* json.dump(new_data, f, indent=4)
json_dump(d) == JsonFile(d)

\* os.path.relpath(path, start=base_dir): the components joined by os.sep
RECURSIVE relpath(_, _)
relpath(p, sep) ==
    IF Len(p) = 1 THEN p[1]
    ELSE p[1] \o <<sep>> \o relpath(Tail(p), sep)

\* (mutant) the host's separators kept
intended_for_entry_raw(bold_file, sep) == BIDS_URI \o relpath(bold_file, sep)

\* lines 182-186
intended_for_entry(bold_file, sep) ==
    BIDS_URI \o replace(relpath(bold_file, sep), <<sep>>, <<"/">>)

\* lines 180-186
intended_for(t, func_dir, sep) ==
    LET bold_files == sorted_paths(func_dir, glob_suffix(t, func_dir, BOLD_SUFFIX))
    IN [i \in 1..Len(bold_files) |-> intended_for_entry(bold_files[i], sep)]

\* (mutant) a new document with the two keys only
new_data_replacing(fmap_data, intended, b0_identifier) ==
    dict_set(dict_set(<<>>, INTENDED_FOR, JList(intended)),
             B0_FIELD_IDENTIFIER, JStr(b0_identifier))

\* lines 200-202
new_data(fmap_data, intended, b0_identifier) ==
    dict_set(dict_set(fmap_data, INTENDED_FOR, JList(intended)),
             B0_FIELD_IDENTIFIER, JStr(b0_identifier))

\* (mutant) the comparison left out
no_changes_never(new, fmap_data) == FALSE

\* lines 204-206
no_changes(new, fmap_data) == dict_eq(new, fmap_data)

\* lines 208-213
write_json(st, fmap_json_path, new, dry_run) ==
    IF dry_run THEN Say(st, "Would update JSON", fmap_json_path, <<>>, 0)
    ELSE file_op(Say(st, "Updating JSON", fmap_json_path, <<>>, 0), fmap_json_path,
                 write_file(st.fs, fmap_json_path, json_dump(new)))

\* lines 215-216: what the except clause makes of the try block's outcome
except_json(st, fmap_json_path) ==
    IF st.halt = "OSError"
    THEN Say(caught(st), "Error updating", fmap_json_path, <<>>, 0)
    ELSE st

\* lines 172-216: one session directory
json_session(st, subject, ses_path, b0_identifier, dry_run, sep) ==
    LET ses_id == basename(ses_path)
        func_dir == join(ses_path, FUNC)
        fmap_dir == join(ses_path, FMAP)
        fmap_json_path == join(fmap_dir, subject \o <<"_">> \o ses_id \o FIELDMAP_JSON)
    IN IF ~isdir(st.fs, func_dir) \/ ~isdir(st.fs, fmap_dir)
       THEN Say(st, "Missing func or fmap directory", ses_path, <<>>, 0)
       ELSE IF ~exists(st.fs, fmap_json_path)
            THEN Say(st, "No fieldmap JSON found", fmap_dir, <<>>, 0)
       ELSE IF json_load_raises(st.fs, fmap_json_path)
            THEN Say(st, "Error updating", fmap_json_path, <<>>, 0)
       ELSE LET fmap_data == json_load(st.fs[fmap_json_path])
                new == new_data(fmap_data, intended_for(st.fs, func_dir, sep), b0_identifier)
            IN IF no_changes(new, fmap_data)
               THEN Say(st, "No changes needed", fmap_json_path, <<>>, 0)
               ELSE except_json(write_json(st, fmap_json_path, new, dry_run),
                                fmap_json_path)

RECURSIVE json_sessions(_, _, _, _, _, _)
json_sessions(st, subject, steps, b0_identifier, dry_run, sep) ==
    IF steps = <<>> \/ halted(st) THEN st
    ELSE json_sessions(
            IF Head(steps).yield
            THEN json_session(st, subject, Head(steps).path, b0_identifier, dry_run, sep)
            ELSE Say(st, "Session directory not found", Head(steps).path, <<>>, 0),
            subject, Tail(steps), b0_identifier, dry_run, sep)

RECURSIVE update_fieldmap_json(_, _, _, _, _, _)
update_fieldmap_json(st, subjects, sessions_filter, b0_identifier, dry_run, sep) ==
    IF subjects = <<>> \/ halted(st) THEN st
    ELSE LET subject_path == <<Head(subjects)>>
         IN update_fieldmap_json(
               IF ~isdir(st.fs, subject_path)
               THEN Say(st, "Directory not found", subject_path, <<>>, 0)
               ELSE json_sessions(st, Head(subjects),
                        iter_session_paths(st.fs, subject_path, sessions_filter),
                        b0_identifier, dry_run, sep),
               Tail(subjects), sessions_filter, b0_identifier, dry_run, sep)

----------------------------------------------------------------------------
(* The command line: post_process_cli.py. *)

VARIABLES
    fs,         \* the dataset tree under --base-dir
    argv,       \* the parsed command line (args)
    os_sep,     \* the host's os.sep
    euid,       \* os.geteuid() of the running process
    depth,      \* 0: the process the operator started; 1: its re-run under sudo
    pc,         \* where main() of the running process is
    loc,        \* main()'s locals
    out,        \* this invocation's output and file operations, in order
    exit_code,  \* the exit code of the process the operator started (-1: running)
    runs,       \* invocations completed before this one
    fs0,        \* the tree when this invocation started
    past,       \* the first tree, output and exit code of each completed invocation
    calls,      \* the passes this invocation has called, in order
    denied,     \* the paths on which the OS refuses a change
    kill_at,    \* file operations this invocation completes before it is
                \* terminated from outside (-1: it is not terminated)
    returncode  \* the exit code of the command re-run under sudo (-1: none has ended)

vars == <<fs, argv, os_sep, euid, depth, pc, loc, out, exit_code, runs, fs0, past, calls,
          denied, kill_at, returncode>>

\* How many times the operator runs the same command line.
MaxRuns == 2

NoLocals == [subjects |-> <<>>, sessions_filter |-> <<>>,
             run_rename |-> FALSE, run_scans |-> FALSE, run_json |-> FALSE]

map_subject(xs) == [i \in 1..Len(xs) |-> normalize_subject(xs[i])]
map_session(xs) == [i \in 1..Len(xs) |-> normalize_session(xs[i])]

\* line 108
run_any(a) == a.rename_files \/ a.update_scans \/ a.update_json

\* line 109
run_rename(a) == a.rename_files \/ ~run_any(a)

\* (mutant) the scans step runs with every selection
run_scans_always(a) == TRUE

\* line 110
run_scans(a) == a.update_scans \/ ~run_any(a)

\* line 111
run_json(a) == a.update_json \/ ~run_any(a)

\* lines 105-111 (args.sessions is None when -e is not given: <<>>)
locals(a) ==
    [subjects |-> map_subject(a.subjects),
     sessions_filter |-> map_session(a.sessions),
     run_rename |-> run_rename(a),
     run_scans |-> run_scans(a),
     run_json |-> run_json(a)]

\* lines 81-88: _maybe_rerun_with_sudo goes on to re-run the command
\* (os.geteuid exists on the hosts whose os.sep is "/")
must_rerun(a, sep, uid) == sep = "/" /\ a.sudo /\ uid # 0

\* lines 101-111: no re-run, main() goes on to its passes
Main_Parse ==
    /\ pc = "main"
    /\ ~must_rerun(argv, os_sep, euid)
    /\ loc' = locals(argv)
    /\ pc' = "rename"
    /\ UNCHANGED <<fs, argv, os_sep, euid, depth, out, exit_code, runs, fs0, past, calls,
                   denied, kill_at, returncode>>

\* lines 91-96: sudo starts the same command line as root
Sudo_Rerun ==
    /\ pc = "main"
    /\ must_rerun(argv, os_sep, euid)
    /\ depth' = depth + 1
    /\ euid' = 0
    /\ out' = Append(out, Event("Re-running with sudo", <<>>, <<>>, 0))
    /\ UNCHANGED <<fs, argv, os_sep, pc, loc, exit_code, runs, fs0, past, calls,
                   denied, kill_at, returncode>>

\* lines 96: sudo refuses (no right, wrong password) and returns 1:
\* subprocess.run raises CalledProcessError, which nothing catches: the
\* interpreter exits with 1
Sudo_Refused ==
    /\ pc = "main"
    /\ must_rerun(argv, os_sep, euid)
    /\ out' = Append(out, Event("Re-running with sudo", <<>>, <<>>, 0))
    /\ pc' = "exited"
    /\ returncode' = 1
    /\ exit_code' = 1
    /\ UNCHANGED <<fs, argv, os_sep, euid, depth, loc, runs, fs0, past, calls,
                   denied, kill_at>>

\* The exit code of a process that ended in main() other than by returning:
\* 1 for an exception nothing caught, 128 + 9 for a process terminated by
\* SIGKILL.
abnormal_exit(halt) == IF halt = "killed" THEN 137 ELSE 1

\* What follows a pass of main() that left state st: the statement at next,
\* or the end of the process.  When the process that ended is the command
\* re-run under sudo (depth 1), `check=True` at line 96 makes subprocess.run
\* raise CalledProcessError in the process the operator started, which
\* nothing catches: that process exits with 1.
after_pass(st, next) ==
    /\ fs' = st.fs
    /\ out' = st.out
    /\ kill_at' = st.kill_at
    /\ IF ~halted(st)
       THEN pc' = next /\ UNCHANGED <<exit_code, returncode, depth, euid>>
       ELSE /\ pc' = "exited"
            /\ IF depth = 0
               THEN /\ exit_code' = abnormal_exit(st.halt)
                    /\ UNCHANGED <<returncode, depth, euid>>
               ELSE /\ returncode' = abnormal_exit(st.halt)
                    /\ exit_code' = 1
                    /\ depth' = 0
                    /\ euid' = 1000

\* lines 113-119
Main_Rename ==
    /\ pc = "rename"
    /\ LET st0 == State(fs, out, denied, kill_at)
           st == IF loc.run_rename
                 THEN rename_fieldmap_files(st0, loc.subjects,
                                            loc.sessions_filter, argv.dry_run)
                 ELSE st0
       IN after_pass(st, "scans")
    /\ calls' = IF loc.run_rename THEN Append(calls, "rename_fieldmap_files") ELSE calls
    /\ UNCHANGED <<argv, os_sep, loc, runs, fs0, past, denied>>

\* lines 121-127
Main_Scans ==
    /\ pc = "scans"
    /\ LET st0 == State(fs, out, denied, kill_at)
           st == IF loc.run_scans
                 THEN update_scans_tsv(st0, loc.subjects,
                                       loc.sessions_filter, argv.dry_run)
                 ELSE st0
       IN after_pass(st, "json")
    /\ calls' = IF loc.run_scans THEN Append(calls, "update_scans_tsv") ELSE calls
    /\ UNCHANGED <<argv, os_sep, loc, runs, fs0, past, denied>>

\* lines 129-136
Main_Json ==
    /\ pc = "json"
    /\ LET st0 == State(fs, out, denied, kill_at)
           st == IF loc.run_json
                 THEN update_fieldmap_json(st0, loc.subjects,
                                           loc.sessions_filter, argv.b0_identifier,
                                           argv.dry_run, os_sep)
                 ELSE st0
       IN after_pass(st, "return")
    /\ calls' = IF loc.run_json THEN Append(calls, "update_fieldmap_json") ELSE calls
    /\ UNCHANGED <<argv, os_sep, loc, runs, fs0, past, denied>>

\* lines 138, 142: main() returns 0 and the process the operator started exits
Main_Return ==
    /\ pc = "return"
    /\ depth = 0
    /\ pc' = "exited"
    /\ exit_code' = 0
    /\ UNCHANGED <<fs, argv, os_sep, euid, depth, loc, out, runs, fs0, past, calls,
                   denied, kill_at, returncode>>

\* lines 96-97: the re-run returned 0, the first process raises SystemExit(0)
Sudo_Done ==
    /\ pc = "return"
    /\ depth = 1
    /\ depth' = 0
    /\ euid' = 1000
    /\ pc' = "exited"
    /\ returncode' = 0
    /\ exit_code' = 0
    /\ UNCHANGED <<fs, argv, os_sep, loc, out, runs, fs0, past, calls, denied, kill_at>>

\* The operator runs the same command line again on the tree as it is, and
\* lets it run.
Invoke ==
    /\ pc = "exited"
    /\ runs + 1 < MaxRuns
    /\ runs' = runs + 1
    /\ past' = Append(past, [fs0 |-> fs0, out |-> out, exit_code |-> exit_code])
    /\ kill_at' = -1
    /\ returncode' = -1
    /\ out' = <<>>
    /\ fs0' = fs
    /\ loc' = NoLocals
    /\ pc' = "main"
    /\ exit_code' = -1
    /\ calls' = <<>>
    /\ UNCHANGED <<fs, argv, os_sep, euid, depth, denied>>

Next ==
    \/ Main_Parse
    \/ Sudo_Rerun
    \/ Sudo_Refused
    \/ Main_Rename
    \/ Main_Scans
    \/ Main_Json
    \/ Main_Return
    \/ Sudo_Done
    \/ Invoke

\* The state when the operator starts the command line a on tree t, where
\* the OS refuses changes to the paths d and the run is terminated after k
\* file operations.
StartIn(t, a, sep, uid, d, k) ==
    /\ fs = t
    /\ argv = a
    /\ os_sep = sep
    /\ euid = uid
    /\ depth = 0
    /\ pc = "main"
    /\ loc = NoLocals
    /\ out = <<>>
    /\ exit_code = -1
    /\ runs = 0
    /\ fs0 = t
    /\ past = <<>>
    /\ calls = <<>>
    /\ denied = d
    /\ kill_at = k
    /\ returncode = -1

\* The same where the OS refuses nothing and the run is left to end.
Start(t, a, sep, uid) == StartIn(t, a, sep, uid, {}, -1)

----------------------------------------------------------------------------
(* Datasets and command lines the checks start from. *)

MkTree(S) == [p \in {e[1] : e \in S} |-> (CHOOSE e \in S : e[1] = p)[2]]

SUB1 == SUB_ \o <<"1">>
SUB2 == SUB_ \o <<"2">>
SES1 == SES_ \o <<"1">>
SES2 == SES_ \o <<"2">>

Args(subjects, sessions, b0, dry, flags, sudo) ==
    [subjects |-> subjects, sessions |-> sessions, b0_identifier |-> b0,
     dry_run |-> dry, rename_files |-> flags[1], update_scans |-> flags[2],
     update_json |-> flags[3], sudo |-> sudo]

Flags == {<<r, s, j>> : r \in BOOLEAN, s \in BOOLEAN, j \in BOOLEAN}

\* The largest number of entries drawn for fmap/.
MaxFiles == 2

\* Names of fmap/ entries: the legacy tokens, their targets, a name that holds
\* both tokens and what the first rule makes of it, a token followed by a digit.
FmapNames ==
    {FIELDMAP1, FIELDMAP2, MAGNITUDE, FIELDMAP,
     FIELDMAP1 \o <<"_">> \o FIELDMAP2, MAGNITUDE \o <<"_">> \o FIELDMAP2,
     FIELDMAP2 \o <<"1">>}

\* fmap/ listings: each entry a regular file (told apart by the name it has
\* at the start) or a subdirectory
FmapListings ==
    UNION {[S -> {"file", "dir"}] : S \in {T \in SUBSET FmapNames : Cardinality(T) <= MaxFiles}}

RenameTree(k) ==
    MkTree({<<<<SUB1>>, Dir>>, <<<<SUB1, SES1>>, Dir>>, <<<<SUB1, SES1, FMAP>>, Dir>>}
           \cup {<<<<SUB1, SES1, FMAP, n>>, IF k[n] = "dir" THEN Dir ELSE RawFile(n)>> :
                    n \in DOMAIN k})

InitRename ==
    \E k \in FmapListings, dry \in BOOLEAN, sudo \in BOOLEAN,
       flags \in {<<FALSE, FALSE, FALSE>>, <<TRUE, FALSE, FALSE>>} :
        Start(RenameTree(k), Args(<<<<"1">>>>, <<>>, B0MAP_FMAP0, dry, flags, sudo),
              "/", 1000)

SpecRename == InitRename /\ [][Next]_vars

----------------------------------------------------------------------------
(* Reading a run back from its output. *)

\* the events of kind e in output o
Events(o, e) == {i \in 1..Len(o) : o[i].ev = e}

\* the tree before event i of output o, for a run that started on tree t and
\* only renamed
RECURSIVE TreeBefore(_, _, _)
TreeBefore(t, o, i) ==
    IF i <= 1 THEN t
    ELSE LET b == TreeBefore(t, o, i - 1)
         IN IF o[i - 1].ev = "Renaming" THEN os_rename(b, o[i - 1].a, o[i - 1].b) ELSE b

\* the regular files directly in an fmap/ directory of tree t
FmapFiles(t) == {p \in DOMAIN t : Len(p) = 4 /\ p[3] = FMAP /\ t[p].kind = "file"}

FmapDirs(t) == {p \in DOMAIN t : Len(p) = 3 /\ p[3] = FMAP /\ t[p].kind = "dir"}

\* this invocation has run its rename pass
RenamePassDone == pc \in {"scans", "json", "return", "exited"} /\ loc.run_rename

\* the first invocation ran to its end in apply mode with its rename pass
\* and this one, the second, has run its rename pass too
SecondRenameDone ==
    /\ runs = 1
    /\ past[1].exit_code = 0
    /\ ~argv.dry_run
    /\ RenamePassDone

----------------------------------------------------------------------------
(* C2: renaming is idempotent: after one completed apply-mode run of the   *)
(* renamer, a second run with the same arguments renames no file and       *)
(* leaves the tree as it was (each file is renamed at most once).          *)
C2_SecondRunRenamesNothing ==
    SecondRenameDone => (Events(out, "Renaming") = {} /\ fs = fs0)

(* C3: the renamer never overwrites: every rename it performs has a        *)
(* destination that does not exist at that moment, a file whose target     *)
(* exists keeps its old name, and after the pass every regular file that   *)
(* was in fmap/ is still there with its content, under its old or its      *)
(* substituted name, and fmap/ has as many entries as before.              *)
C3_NeverOverwrites ==
    RenamePassDone =>
        /\ \A i \in Events(out, "Renaming") : ~exists(TreeBefore(fs0, out, i), out[i].b)
        /\ \A i \in Events(out, "Skip rename (target exists)") :
              /\ exists(TreeBefore(fs0, out, i), out[i].b)
              /\ exists(fs, out[i].a) /\ fs[out[i].a] = fs0[out[i].a]
        /\ \A p \in FmapFiles(fs0) :
              \E q \in {p, join(SubSeq(p, 1, 3), new_filename(p[4]))} :
                  exists(fs, q) /\ fs[q] = fs0[p]
        /\ \A d \in FmapDirs(fs0) :
              Cardinality(listdir(fs, d)) = Cardinality(listdir(fs0, d))

\* C3's case: in apply mode one file was renamed and another was skipped
\* because its target existed
C3_Witness ==
    /\ RenamePassDone
    /\ ~argv.dry_run
    /\ Events(out, "Renaming") # {}
    /\ Events(out, "Skip rename (target exists)") # {}

----------------------------------------------------------------------------
(* Identifier tokens: every string of at most MaxTokLen characters over    *)
(* the characters of the two prefixes and a digit, given as the one        *)
(* subject or as the one session of the command line, up to the point      *)
(* where main() has normalized its arguments.                              *)

MaxTokLen == 5

TokChars == {"s", "u", "b", "e", "-", "1"}

Tokens == UNION {[1..k -> TokChars] : k \in 0..MaxTokLen}

InitNorm ==
    \E x \in Tokens, slot \in {"subject", "session"} :
        Start(RenameTree([n \in {FIELDMAP1} |-> "file"]),
              Args(IF slot = "subject" THEN <<x>> ELSE <<<<"1">>>>,
                   IF slot = "session" THEN <<x>> ELSE <<>>,
                   B0MAP_FMAP0, FALSE, <<FALSE, FALSE, FALSE>>, FALSE),
              "/", 1000)

NextNorm == Main_Parse

SpecNorm == InitNorm /\ [][NextNorm]_vars

\* the command line with its identifiers already in canonical form
Canonical(a) ==
    [a EXCEPT !.subjects = map_subject(a.subjects), !.sessions = map_session(a.sessions)]

(* C9: normalization is idempotent, its result starts with the prefix and  *)
(* a prefixed token is returned unchanged, for subject and for session     *)
(* tokens; main() normalizes every subject and session argument before     *)
(* its first pass, so the passes get the same arguments for a bare and for *)
(* a prefixed identifier.                                                  *)
C9_NormalizeIdempotent ==
    /\ \A i \in 1..Len(argv.subjects) :
          LET x == argv.subjects[i]
          IN /\ normalize_subject(normalize_subject(x)) = normalize_subject(x)
             /\ startswith(normalize_subject(x), SUB_)
             /\ startswith(x, SUB_) => normalize_subject(x) = x
    /\ \A i \in 1..Len(argv.sessions) :
          LET x == argv.sessions[i]
          IN /\ normalize_session(normalize_session(x)) = normalize_session(x)
             /\ startswith(normalize_session(x), SES_)
             /\ startswith(x, SES_) => normalize_session(x) = x
    /\ pc # "main" =>
          /\ \A i \in 1..Len(loc.subjects) : startswith(loc.subjects[i], SUB_)
          /\ \A i \in 1..Len(loc.sessions_filter) : startswith(loc.sessions_filter[i], SES_)
          /\ loc = locals(Canonical(argv))

\* C9's case: main() has normalized a subject that came with its prefix and
\* an identifier after it
C9_Witness ==
    /\ pc = "rename"
    /\ startswith(argv.subjects[1], SUB_)
    /\ Len(argv.subjects[1]) > Len(SUB_)
    /\ loc.subjects = argv.subjects

----------------------------------------------------------------------------
(* Scan manifests: one session with the manifest x_scans.tsv, a table of   *)
(* at most MaxRows rows with a `filename` column, an `op` column, or both, *)
(* in either order, and possibly a second file y_scans.tsv that is no      *)
(* table.                                                                  *)

MaxRows == 2

OP == <<"o", "p">>
X_SCANS == <<"x">> \o SCANS_SUFFIX
Y_SCANS == <<"y">> \o SCANS_SUFFIX

\* `filename` cells: a name with either legacy token, one with none, no text
FilenameCells == {FIELDMAP1, FIELDMAP2, MAGNITUDE, EMPTY}

\* cells of the other column: the BIDS marker of a missing value, a number
\* with a leading zero, a word
OtherCells == {NA, <<"0", "1">>, <<"a">>}

Headers == {<<FILENAME>>, <<FILENAME, OP>>, <<OP, FILENAME>>, <<OP>>}

CellsOf(name) == IF name = FILENAME THEN FilenameCells ELSE OtherCells

RowsOf(h) ==
    {r \in [1..Len(h) -> FilenameCells \cup OtherCells] :
        \A j \in 1..Len(h) : r[j] \in CellsOf(h[j])}

Tables ==
    UNION {{TsvFile(h, rows) : rows \in UNION {[1..n -> RowsOf(h)] : n \in 0..MaxRows}} :
              h \in Headers}

ScansTree(table, second) ==
    MkTree({<<<<SUB1>>, Dir>>, <<<<SUB1, SES1>>, Dir>>, <<<<SUB1, SES1, X_SCANS>>, table>>}
           \cup (IF second THEN {<<<<SUB1, SES1, Y_SCANS>>, RawFile(Y_SCANS)>>} ELSE {}))

\* command-line variants: everything, a preview of everything, one step
\* under sudo
Variants(rename, scans, json) ==
    {[dry |-> FALSE, flags |-> <<FALSE, FALSE, FALSE>>, sudo |-> FALSE],
     [dry |-> TRUE, flags |-> <<FALSE, FALSE, FALSE>>, sudo |-> FALSE],
     [dry |-> FALSE, flags |-> <<rename, scans, json>>, sudo |-> TRUE]}

InitScans ==
    \E table \in Tables, second \in BOOLEAN, v \in Variants(FALSE, TRUE, FALSE) :
        Start(ScansTree(table, second),
              Args(<<<<"1">>>>, <<>>, B0MAP_FMAP0, v.dry, v.flags, v.sudo), "/", 1000)

SpecScans == InitScans /\ [][Next]_vars

\* the tables of tree t that are session manifests
Manifests(t) ==
    {p \in DOMAIN t : Len(p) = 3 /\ endswith(p[3], SCANS_SUFFIX) /\ t[p].fmt = "tsv"}

has_token(c) == contains(c, FIELDMAP1) \/ contains(c, FIELDMAP2)

\* the `filename` values of a table
FilenameValues(node) ==
    {node.rows[i][j] : i \in 1..Len(node.rows),
                       j \in {k \in 1..Len(node.header) : node.header[k] = FILENAME}}

\* this invocation has run its scan-table pass in apply mode
ScansPassApplied ==
    pc \in {"json", "return", "exited"} /\ loc.run_scans /\ ~argv.dry_run

(* C4: update_scans_tsv changes nothing on disk except `filename` values   *)
(* that hold a legacy token: in every manifest the columns, the number of  *)
(* rows and every value outside `filename` are as before, each `filename`  *)
(* value is the old one with fieldmap1 replaced by magnitude and fieldmap2 *)
(* by fieldmap, and a manifest with no token in `filename` is not written. *)
C4_OnlyFilenameChanges ==
    ScansPassApplied =>
        \A m \in Manifests(fs0) :
            LET old == fs0[m]
                new == fs[m]
            IN /\ new.header = old.header
               /\ Len(new.rows) = Len(old.rows)
               /\ \A i \in 1..Len(old.rows) : \A j \in 1..Len(old.header) :
                     new.rows[i][j] =
                        IF old.header[j] = FILENAME
                        THEN replace(replace(old.rows[i][j], FIELDMAP1, MAGNITUDE),
                                     FIELDMAP2, FIELDMAP)
                        ELSE old.rows[i][j]
               /\ (\A c \in FilenameValues(old) : ~has_token(c)) =>
                     \A i \in Events(out, "Updating TSV") : out[i].a # m

----------------------------------------------------------------------------
(* Sidecars: session ses-1 with at most MaxBold entries in func/ and a     *)
(* sidecar of at most MaxMembers members (or one that is no JSON), and     *)
(* session ses-2 with one run and an empty sidecar.                        *)

MaxBold == 2
MaxMembers == 2

\* names of func/ entries: two runs whose order by name is not their order by
\* length, a hidden file, a name without the extension
FuncNames ==
    {<<"b">> \o BOLD_SUFFIX, <<"a", "b">> \o BOLD_SUFFIX,
     <<".", "h">> \o BOLD_SUFFIX, <<"a", "_", "b", "o", "l", "d">>}

\* func/ listings: regular files, or all subdirectories
FuncListings ==
    {[names |-> S, kind |-> k] :
        S \in {T \in SUBSET FuncNames : Cardinality(T) <= MaxBold}, k \in {"file", "dir"}}

Sidecar(subject, ses) == subject \o <<"_">> \o ses \o FIELDMAP_JSON

\* members a sidecar may hold: IntendedFor with the value the run will compute
\* or another, B0FieldIdentifier with the default label, a key of the scanner's
MemberChoices(funcs) ==
    {Member(INTENDED_FOR, JList(funcs)), Member(INTENDED_FOR, JStr(<<"x">>)),
     Member(B0_FIELD_IDENTIFIER, JStr(B0MAP_FMAP0)),
     Member(<<"x">>, JStr(<<"a">>)), Member(<<"x">>, JStr(<<"b">>))}

SidecarChoices(funcs) ==
    {RawFile(<<"x">>)}
    \cup {JsonFile(m) : m \in UNION {[1..n -> MemberChoices(funcs)] : n \in 0..MaxMembers}}

JsonSkeleton(listing) ==
    {<<<<SUB1>>, Dir>>, <<<<SUB1, SES1>>, Dir>>, <<<<SUB1, SES2>>, Dir>>,
     <<<<SUB1, SES1, FUNC>>, Dir>>, <<<<SUB1, SES1, FMAP>>, Dir>>,
     <<<<SUB1, SES2, FUNC>>, Dir>>, <<<<SUB1, SES2, FMAP>>, Dir>>,
     <<<<SUB1, SES2, FUNC, <<"c">> \o BOLD_SUFFIX>>, RawFile(<<"c">>)>>,
     <<<<SUB1, SES2, FMAP, Sidecar(SUB1, SES2)>>, JsonFile(<<>>)>>}
    \cup {<<<<SUB1, SES1, FUNC, n>>, IF listing.kind = "dir" THEN Dir ELSE RawFile(n)>> :
             n \in listing.names}

JsonTree(listing, sidecar) ==
    MkTree(JsonSkeleton(listing) \cup {<<<<SUB1, SES1, FMAP, Sidecar(SUB1, SES1)>>, sidecar>>})

\* hosts and command lines: everything on a POSIX host, the JSON step alone
\* on a host whose separator is the backslash, a preview under sudo
JsonVariants ==
    {[sep |-> "/", dry |-> FALSE, flags |-> <<FALSE, FALSE, FALSE>>, sudo |-> FALSE],
     [sep |-> "\\", dry |-> FALSE, flags |-> <<FALSE, FALSE, TRUE>>, sudo |-> FALSE],
     [sep |-> "/", dry |-> TRUE, flags |-> <<FALSE, FALSE, FALSE>>, sudo |-> TRUE]}

InitJson ==
    \E listing \in FuncListings, v \in JsonVariants :
        \E sidecar \in SidecarChoices(
                intended_for(MkTree(JsonSkeleton(listing)), <<SUB1, SES1, FUNC>>, v.sep)) :
            Start(JsonTree(listing, sidecar),
                  Args(<<<<"1">>>>, <<>>, B0MAP_FMAP0, v.dry, v.flags, v.sudo), v.sep, 1000)

SpecJson == InitJson /\ [][Next]_vars

\* the sidecars this invocation wrote
Written == {out[i].a : i \in Events(out, "Updating JSON")}

\* the keys of a JSON object as written in a file, and the value of one (of
\* its last occurrence, as every JSON reader takes it)
Keys(node) == {node.members[i].key : i \in 1..Len(node.members)}

Value(node, k) ==
    node.members[CHOOSE i \in 1..Len(node.members) :
                    /\ node.members[i].key = k
                    /\ \A j \in (i + 1)..Len(node.members) : node.members[j].key # k].val

\* this invocation has run its sidecar pass
JsonPassDone == pc \in {"return", "exited"} /\ loc.run_json

\* bids::<subject>/<session>/func/<name> for the entries of the session's
\* func/ in tree t whose names are in the collection Names(t, func_dir)
BidsUri(p) == BIDS_URI \o p[1] \o <<"/">> \o p[2] \o <<"/">> \o p[3] \o <<"/">> \o p[4]

UriList(func_dir, names) ==
    LET ordered == sorted(names)
    IN [i \in 1..Len(ordered) |-> BidsUri(join(func_dir, ordered[i]))]

\* the regular files of func/ whose name ends in _bold.nii.gz
BoldFiles(t, func_dir) ==
    {n \in listdir(t, func_dir) : endswith(n, BOLD_SUFFIX) /\ isfile(t, join(func_dir, n))}

\* the entries of func/, of any kind, whose name ends in _bold.nii.gz and
\* does not start with a dot
BoldEntries(t, func_dir) ==
    {n \in listdir(t, func_dir) : endswith(n, BOLD_SUFFIX) /\ n[1] # "."}

FuncOf(sidecar_path) == join(SubSeq(sidecar_path, 1, 2), FUNC)

(* C5: the sidecar update is a pure merge: a sidecar that the pass wrote   *)
(* has exactly the keys it had plus IntendedFor and B0FieldIdentifier, and *)
(* every other key has the value it had.                                   *)
C5_PureMerge ==
    JsonPassDone =>
        \A p \in Written :
            /\ Keys(fs[p]) = Keys(fs0[p]) \cup {INTENDED_FOR, B0_FIELD_IDENTIFIER}
            /\ \A k \in Keys(fs0[p]) \ {INTENDED_FOR, B0_FIELD_IDENTIFIER} :
                  Value(fs[p], k) = Value(fs0[p], k)

\* C5's case: a sidecar with a key of the scanner's and an IntendedFor of
\* its own was written
C5_Witness ==
    /\ JsonPassDone
    /\ \E p \in Written :
          /\ <<"x">> \in Keys(fs0[p])
          /\ INTENDED_FOR \in Keys(fs0[p])
          /\ Value(fs0[p], INTENDED_FOR) # Value(fs[p], INTENDED_FOR)

(* C6: no spurious sidecar writes: a sidecar whose IntendedFor is already  *)
(* the computed list and whose B0FieldIdentifier is already the label is   *)
(* not written; so after one completed apply-mode run a second run with    *)
(* the same label writes no sidecar.                                       *)
C6_NoSpuriousWrite ==
    JsonPassDone =>
        /\ \A p \in {q \in DOMAIN fs0 : Len(q) = 4 /\ q[3] = FMAP /\ fs0[q].fmt = "json"} :
              (/\ {INTENDED_FOR, B0_FIELD_IDENTIFIER} \subseteq Keys(fs0[p])
               /\ Value(fs0[p], INTENDED_FOR)
                     = JList(UriList(FuncOf(p), BoldEntries(fs0, FuncOf(p))))
               /\ Value(fs0[p], B0_FIELD_IDENTIFIER) = JStr(argv.b0_identifier))
              => p \notin Written
        /\ (runs = 1 /\ past[1].exit_code = 0 /\ ~argv.dry_run) => Written = {}

\* C6's case: the first run wrote a sidecar and the second, on the tree it
\* left, has run its sidecar pass
C6_Witness ==
    /\ JsonPassDone
    /\ runs = 1
    /\ past[1].exit_code = 0
    /\ Events(past[1].out, "Updating JSON") # {}
    /\ Events(out, "No changes needed") # {}

(* C7 as claimed: the IntendedFor written to a session's sidecar has one   *)
(* entry per file of that session's func/ whose name ends in _bold.nii.gz, *)
(* in the order of the names, each bids:: and the path below the dataset   *)
(* root with forward slashes.                                              *)
C7_OnePerBoldFile ==
    JsonPassDone =>
        \A p \in Written :
            Value(fs[p], INTENDED_FOR) = JList(UriList(FuncOf(p), BoldFiles(fs0, FuncOf(p))))

(* C7 as amended: one entry per entry of that session's func/ (a file or   *)
(* not) whose name ends in _bold.nii.gz and does not start with a dot, in  *)
(* the order of the names, each bids:: and the path below the dataset root *)
(* with forward slashes.                                                   *)
C7_OnePerVisibleBoldEntry ==
    JsonPassDone =>
        \A p \in Written :
            Value(fs[p], INTENDED_FOR) = JList(UriList(FuncOf(p), BoldEntries(fs0, FuncOf(p))))

\* C7's case: on a host whose separator is the backslash a sidecar was
\* written for a session with a run and a hidden file in func/
C7_Witness ==
    /\ JsonPassDone
    /\ os_sep = "\\"
    /\ \E p \in Written :
          /\ BoldEntries(fs0, FuncOf(p)) # {}
          /\ BoldEntries(fs0, FuncOf(p)) # BoldFiles(fs0, FuncOf(p))

----------------------------------------------------------------------------
(* Datasets of two subjects and two sessions.  A session is as the         *)
(* converter left it (fresh: legacy names in fmap/ and in the manifest, a  *)
(* run in func/), already renamed but with manifest and sidecar still to   *)
(* update, an empty directory, or absent.                                  *)

Stem(sub, ses) == sub \o <<"_">> \o ses
DOT_JSON == <<".", "j", "s", "o", "n">>

SessionFiles(sub, ses, state) ==
    LET d == <<sub, ses>>
        S == Stem(sub, ses)
        mag == S \o <<"_">> \o (IF state = "fresh" THEN FIELDMAP1 ELSE MAGNITUDE)
        side == S \o <<"_">> \o (IF state = "fresh" THEN FIELDMAP2 ELSE FIELDMAP) \o DOT_JSON
    IN IF state = "absent" THEN {}
       ELSE IF state = "bare" THEN {<<d, Dir>>}
       ELSE {<<d, Dir>>, <<join(d, FMAP), Dir>>, <<join(d, FUNC), Dir>>,
             <<join(join(d, FMAP), mag), RawFile(mag)>>,
             <<join(join(d, FMAP), side), JsonFile(<<Member(<<"x">>, JStr(<<"a">>))>>)>>,
             <<join(join(d, FUNC), S \o BOLD_SUFFIX), RawFile(S)>>,
             <<join(d, S \o SCANS_SUFFIX),
               TsvFile(<<FILENAME, OP>>,
                       <<<<FMAP \o <<"/">> \o S \o <<"_">> \o FIELDMAP1, <<"a">>>>,
                         <<FMAP \o <<"/">> \o S \o <<"_">> \o FIELDMAP2 \o DOT_JSON, <<"a">>>>>>)>>}

Datasets ==
    {MkTree({<<<<SUB1>>, Dir>>} \cup SessionFiles(SUB1, SES1, a) \cup SessionFiles(SUB1, SES2, b)
            \cup (IF c = "absent" THEN {} ELSE {<<<<SUB2>>, Dir>>})
            \cup SessionFiles(SUB2, SES1, IF c = "ses-1" THEN "fresh" ELSE "absent")
            \cup SessionFiles(SUB2, SES2, IF c = "ses-2" THEN "fresh" ELSE "absent")) :
        a \in {"fresh", "renamed", "bare", "absent"}, b \in {"fresh", "absent"},
        c \in {"absent", "ses-1", "ses-2"}}

\* -s: one subject, two subjects (bare and prefixed), a subject with no
\* directory before one that has one
SubjectArgs == {<<<<"1">>>>, <<SUB1, <<"2">>>>, <<<<"3">>, <<"1">>>>}

\* -e: not given, a session with no directory between two others, one before
\* another, two sessions in descending order
SessionArgs == {<<>>, <<<<"1">>, <<"3">>, <<"2">>>>, <<<<"3">>, SES1>>, <<<<"2">>, <<"1">>>>}

\* every step selection, applied and previewed, and everything under sudo
Modes ==
    {[dry |-> d, flags |-> f, sudo |-> FALSE] : d \in BOOLEAN, f \in Flags}
    \cup {[dry |-> FALSE, flags |-> <<FALSE, FALSE, FALSE>>, sudo |-> TRUE]}

Init ==
    \E t \in Datasets, subjects \in SubjectArgs, sessions \in SessionArgs, m \in Modes :
        Start(t, Args(subjects, sessions, B0MAP_FMAP0, m.dry, m.flags, m.sudo), "/", 1000)

Spec == Init /\ [][Next]_vars

\* main() of this invocation has run its passes to the end
RunComplete == pc = "return" \/ (pc = "exited" /\ exit_code = 0)

(* C1: dry-run never mutates the filesystem: with --dry-run the tree is,   *)
(* at every point of the run and for every step selection, the tree the    *)
(* run started on, whatever is reported.                                   *)
C1_DryRunLeavesTree == argv.dry_run => fs = fs0

\* C1's case: a preview has ended after reporting a rename, a manifest update
\* and a sidecar update it would make
C1_Witness ==
    /\ argv.dry_run
    /\ pc = "exited"
    /\ Events(out, "Would rename") # {}
    /\ Events(out, "Would update TSV") # {}
    /\ Events(out, "Would update JSON") # {}

\* the requested sessions that are directories of the subject in tree t
Requested(t, subject, sessions_filter) ==
    SelectSeq(sessions_filter, LAMBDA x : isdir(t, <<subject, x>>))

\* the requested sessions that are no directory of a subject that has one
Missing(t, subjects, sessions_filter) ==
    {<<i, j>> \in (1..Len(subjects)) \X (1..Len(sessions_filter)) :
        isdir(t, <<subjects[i]>>) /\ ~isdir(t, <<subjects[i], sessions_filter[j]>>)}

\* a subject whose directory exists and none of whose requested sessions does
NothingToDo(t, subject, l) ==
    isdir(t, <<subject>>) /\ Requested(t, subject, l.sessions_filter) = <<>>

\* the three passes, subject by subject, each called with only the requested
\* sessions that exist for the subject
RECURSIVE RenameExisting(_, _, _, _)
RenameExisting(st, subjects, l, a) ==
    IF subjects = <<>> THEN st
    ELSE RenameExisting(
            IF NothingToDo(st.fs, Head(subjects), l) THEN st
            ELSE rename_fieldmap_files(st, <<Head(subjects)>>,
                    Requested(st.fs, Head(subjects), l.sessions_filter), a.dry_run),
            Tail(subjects), l, a)

RECURSIVE ScansExisting(_, _, _, _)
ScansExisting(st, subjects, l, a) ==
    IF subjects = <<>> THEN st
    ELSE ScansExisting(
            IF NothingToDo(st.fs, Head(subjects), l) THEN st
            ELSE update_scans_tsv(st, <<Head(subjects)>>,
                    Requested(st.fs, Head(subjects), l.sessions_filter), a.dry_run),
            Tail(subjects), l, a)

RECURSIVE JsonExisting(_, _, _, _, _)
JsonExisting(st, subjects, l, a, sep) ==
    IF subjects = <<>> THEN st
    ELSE JsonExisting(
            IF NothingToDo(st.fs, Head(subjects), l) THEN st
            ELSE update_fieldmap_json(st, <<Head(subjects)>>,
                    Requested(st.fs, Head(subjects), l.sessions_filter),
                    a.b0_identifier, a.dry_run, sep),
            Tail(subjects), l, a, sep)

RunExisting(t, l, a, sep) ==
    LET s0 == State(t, <<>>, {}, -1)
        s1 == IF l.run_rename THEN RenameExisting(s0, l.subjects, l, a) ELSE s0
        s2 == IF l.run_scans THEN ScansExisting(s1, l.subjects, l, a) ELSE s1
    IN IF l.run_json THEN JsonExisting(s2, l.subjects, l, a, sep) ELSE s2

NotFound(o) == Events(o, "Session directory not found")

(* C8: a requested session that does not exist is not fatal: each pass     *)
(* reports it once for each subject and goes on, and the tree and the      *)
(* rest of the output are those of the passes called, subject by subject,  *)
(* with only the requested sessions that exist.                            *)
C8_MissingSessionSkipped ==
    (RunComplete /\ loc.sessions_filter # <<>>) =>
        LET exp == RunExisting(fs0, loc, argv, os_sep)
            missing == Missing(fs0, loc.subjects, loc.sessions_filter)
        IN /\ fs = exp.fs
           /\ SelectSeq(out, LAMBDA e : e.ev \notin {"Session directory not found",
                                                      "Re-running with sudo"}) = exp.out
           /\ Cardinality(NotFound(out)) = Len(calls) * Cardinality(missing)
           /\ \A m \in missing : \E i \in NotFound(out) :
                 out[i].a = <<loc.subjects[m[1]], loc.sessions_filter[m[2]]>>

\* C8's case: the second of three requested sessions is missing, the first
\* and the third were renamed in, and so was a session of a later subject
C8_Witness ==
    /\ RunComplete
    /\ Len(loc.sessions_filter) = 3
    /\ NotFound(out) # {}
    /\ \E i \in Events(out, "Renaming") : out[i].a[1] = SUB1 /\ out[i].a[2] = SES1
    /\ \E i \in Events(out, "Renaming") : out[i].a[1] = SUB1 /\ out[i].a[2] = SES2
    /\ \E i \in Events(out, "Renaming") : out[i].a[1] = SUB2

\* the passes a step selection asks for, in main()'s order
Selected(a) ==
    SelectSeq(<<"rename_fieldmap_files", "update_scans_tsv", "update_fieldmap_json">>,
              LAMBDA f : \/ ~(a.rename_files \/ a.update_scans \/ a.update_json)
                         \/ (f = "rename_fieldmap_files" /\ a.rename_files)
                         \/ (f = "update_scans_tsv" /\ a.update_scans)
                         \/ (f = "update_fieldmap_json" /\ a.update_json))

(* C10: step selection: with no step flag main() calls the three passes in *)
(* the order rename, scans, json; with at least one it calls exactly the   *)
(* selected passes, in that order, and no other.                           *)
C10_StepSelection == RunComplete => calls = Selected(argv)

\* C10's case: with --rename-files and --update-json the run has ended
\* having renamed and written a sidecar
C10_Witness ==
    /\ pc = "exited"
    /\ argv.rename_files /\ ~argv.update_scans /\ argv.update_json
    /\ calls = <<"rename_fieldmap_files", "update_fieldmap_json">>
    /\ Events(out, "Renaming") # {}
    /\ Events(out, "Updating JSON") # {}


----------------------------------------------------------------------------
(* Runs that do not go well: the OS refuses a change to one file, or the   *)
(* run is terminated from outside after some of its file operations.       *)
(* Datasets of up to three sessions, each as the converter left it; the    *)
(* first may instead hold a field map whose name carries both legacy       *)
(* tokens ("both"), or a manifest and a sidecar that are no table and no   *)
(* JSON ("broken"); a session may also be renamed already.                 *)

\* The most file operations after which a run is terminated.
MaxKillAt == 12

FaultSession(sub, ses, state) ==
    LET d == <<sub, ses>>
        S == Stem(sub, ses)
        both == S \o <<"_">> \o FIELDMAP1 \o <<"_">> \o FIELDMAP2
        side == S \o <<"_">> \o FIELDMAP2 \o DOT_JSON
        done == S \o <<"_">> \o FIELDMAP \o DOT_JSON
    IN IF state = "both"
       THEN {<<d, Dir>>, <<join(d, FMAP), Dir>>, <<join(d, FUNC), Dir>>,
             <<join(join(d, FMAP), both), RawFile(both)>>,
             <<join(join(d, FMAP), side), JsonFile(<<Member(<<"x">>, JStr(<<"a">>))>>)>>,
             <<join(join(d, FUNC), S \o BOLD_SUFFIX), RawFile(S)>>,
             <<join(d, S \o SCANS_SUFFIX),
               TsvFile(<<FILENAME, OP>>, <<<<FMAP \o <<"/">> \o both, <<"a">>>>>>)>>}
       ELSE IF state = "broken"
       THEN {<<d, Dir>>, <<join(d, FMAP), Dir>>, <<join(d, FUNC), Dir>>,
             <<join(join(d, FMAP), done), RawFile(done)>>,
             <<join(join(d, FUNC), S \o BOLD_SUFFIX), RawFile(S)>>,
             <<join(d, S \o SCANS_SUFFIX), RawFile(S)>>}
       ELSE SessionFiles(sub, ses, state)

FaultTrees ==
    {MkTree({<<<<SUB1>>, Dir>>, <<<<SUB2>>, Dir>>}
            \cup FaultSession(SUB1, SES1, a) \cup FaultSession(SUB1, SES2, b)
            \cup FaultSession(SUB2, SES1, c)) :
        a \in {"fresh", "both", "broken", "renamed"}, b \in {"fresh", "absent"},
        c \in {"fresh", "renamed", "absent"}}

\* the paths a run of the three passes may change in tree t: the files of
\* fmap/ under their present and their new names, and the manifests
Changeable(t) ==
    LET files == {q \in DOMAIN t : t[q].kind = "file" /\ q[Len(q) - 1] # FUNC}
    IN files \cup {join(SubSeq(q, 1, Len(q) - 1), new_filename(basename(q))) : q \in files}

\* What goes wrong: nothing, a change to one path refused, or the run
\* terminated after k file operations.
Faults(t) ==
    {[denied |-> {}, kill_at |-> -1]}
    \cup {[denied |-> {q}, kill_at |-> -1] : q \in Changeable(t)}
    \cup {[denied |-> {}, kill_at |-> k] : k \in 0..MaxKillAt}

\* every step applied, directly and under sudo; the two update steps
\* applied; every step previewed
FaultModes ==
    {[dry |-> FALSE, flags |-> <<FALSE, FALSE, FALSE>>, sudo |-> FALSE],
     [dry |-> FALSE, flags |-> <<FALSE, FALSE, FALSE>>, sudo |-> TRUE],
     [dry |-> FALSE, flags |-> <<FALSE, TRUE, TRUE>>, sudo |-> FALSE],
     [dry |-> TRUE, flags |-> <<FALSE, FALSE, FALSE>>, sudo |-> FALSE]}

InitFault ==
    \E t \in FaultTrees, m \in FaultModes :
        \E f \in Faults(t) :
            StartIn(t, Args(<<<<"1">>, <<"2">>>>, <<>>, B0MAP_FMAP0, m.dry, m.flags, m.sudo),
                    "/", 1000, f.denied, f.kill_at)

SpecFault == InitFault /\ [][Next]_vars

\* this invocation handed the command line to sudo, and the command has ended
Reinvoked == pc = "exited" /\ returncode # -1

(* C11: privilege re-invocation: with --sudo and not yet root the process  *)
(* the operator started runs no pass itself, and it exits with the exit    *)
(* code of the command it re-ran under sudo: 0 when that succeeded, the    *)
(* same non-zero code when it failed.                                      *)
C11_SudoExitCodePropagated ==
    /\ must_rerun(argv, os_sep, euid) => pc \in {"main", "exited"}
    /\ Reinvoked => exit_code = returncode


\* os.rename was called in this invocation on a path the OS refuses
RenameRefused == \E i \in Events(out, "Renaming") : out[i].a \in denied

\* the legacy-named files of fmap/ directories in tree t
LegacyFiles(t) == {q \in FmapFiles(t) : rename_rule(basename(q)) # 0}

(* C12: a rename failure is fatal: in apply mode, once os.rename of one    *)
(* field map fails nothing follows it: no later file, session or subject   *)
(* is renamed, the scan-table and sidecar passes are not called, the       *)
(* process has ended with a non-zero exit code, and the tree is the one    *)
(* the renames before the failure made (nothing is rolled back).           *)
C12_RenameFailureFatal ==
    RenameRefused =>
        /\ out[Len(out)].ev = "Renaming" /\ out[Len(out)].a \in denied
        /\ Cardinality({i \in Events(out, "Renaming") : out[i].a \in denied}) = 1
        /\ calls = <<"rename_fieldmap_files">>
        /\ pc = "exited" /\ exit_code > 0
        /\ fs = TreeBefore(fs0, out, Len(out))

\* C12's case: a file was renamed, the rename of the next file of the same
\* session was refused, and a later session and a later subject hold
\* legacy names still
C12_Witness ==
    /\ RenameRefused
    /\ pc = "exited"
    /\ \E i \in Events(out, "Renaming") :
          /\ out[i].a \notin denied
          /\ SubSeq(out[i].a, 1, 3) = SubSeq(out[Len(out)].a, 1, 3)
    /\ \E q \in LegacyFiles(fs) : q[1] = SUB1 /\ q[2] = SES2
    /\ \E q \in LegacyFiles(fs) : q[1] = SUB2


\* the manifests and the sidecars of tree t, whatever they hold
Records(t) ==
    {q \in DOMAIN t :
        /\ t[q].kind = "file"
        /\ \/ Len(q) = 3 /\ endswith(q[3], SCANS_SUFFIX)
           \/ Len(q) = 4 /\ q[3] = FMAP /\ endswith(q[4], <<"_">> \o FIELDMAP_JSON)}

\* the files this invocation reported a failure for
Failed ==
    {out[i].a : i \in Events(out, "Error processing") \cup Events(out, "Error updating")}

\* tree t with no entry at path p
Without(t, p) == [q \in DOMAIN t \ {p} |-> t[q]]

\* the two update passes as main() with locals l calls them, on tree t
Updates(t, l, a, sep, d) ==
    LET s0 == State(t, <<>>, d, -1)
        s1 == IF l.run_scans
              THEN update_scans_tsv(s0, l.subjects, l.sessions_filter, a.dry_run)
              ELSE s0
    IN IF l.run_json
       THEN update_fieldmap_json(s1, l.subjects, l.sessions_filter, a.b0_identifier,
                                 a.dry_run, sep)
       ELSE s1

----------------------------------------------------------------------------
(* The order of a run, read back from its output.  Every line a pass       *)
(* prints about a session or a file tells the pass and names the subject   *)
(* and the session; the lines about a missing directory are printed alike  *)
(* by the three passes and are left out.                                   *)

RenameLines == {"Renaming", "Would rename", "Skip rename (target exists)"}
ScansLines == {"Updating TSV", "Would update TSV", "'filename' column not found",
               "Error processing"}
JsonLines == {"Updating JSON", "Would update JSON", "Error updating",
              "No fieldmap JSON found", "Missing func or fmap directory"}

\* the pass that printed line e: 1 rename, 2 scans, 3 json, 0 not told
PassOf(e) ==
    IF e.ev \in RenameLines THEN 1
    ELSE IF e.ev \in ScansLines \/ (e.ev = "No changes needed" /\ Len(e.a) = 3) THEN 2
    ELSE IF e.ev \in JsonLines \/ (e.ev = "No changes needed" /\ Len(e.a) = 4) THEN 3
    ELSE 0

\* the file a line of the rename or the scans pass is about, by name
FileOf(e) == IF PassOf(e) = 1 THEN e.a[4] ELSE IF PassOf(e) = 2 THEN e.a[3] ELSE <<>>

\* the first place of x in sequence xs
Pos(x, xs) == CHOOSE i \in 1..Len(xs) : xs[i] = x /\ \A j \in 1..(i - 1) : xs[j] # x

\* the pairs of lines of one pass, the first printed before the second
Pairs(o) ==
    {<<i, j>> \in (1..Len(o)) \X (1..Len(o)) :
        i < j /\ PassOf(o[i]) # 0 /\ PassOf(o[i]) = PassOf(o[j])}

\* subjects in the order of -s, and in one directory the files by name
SubjectsAndFilesInOrder(o, l) ==
    \A pr \in Pairs(o) :
        LET x == o[pr[1]]
            y == o[pr[2]]
        IN /\ Pos(x.a[1], l.subjects) <= Pos(y.a[1], l.subjects)
           /\ (x.a[1] = y.a[1] /\ x.a[2] = y.a[2] /\ PassOf(x) \in {1, 2})
                 => str_lt(FileOf(x), FileOf(y))

\* the sessions of one subject by name
SessionsByName(o) ==
    \A pr \in Pairs(o) :
        (o[pr[1]].a[1] = o[pr[2]].a[1]) => ~str_lt(o[pr[2]].a[2], o[pr[1]].a[2])

\* the sessions of one subject in the order of -e
SessionsAsListed(o, l) ==
    \A pr \in Pairs(o) :
        (o[pr[1]].a[1] = o[pr[2]].a[1])
            => Pos(o[pr[1]].a[2], l.sessions_filter) <= Pos(o[pr[2]].a[2], l.sessions_filter)

(* C14: processing order is deterministic: in every pass the subjects are  *)
(* visited in the order given, the sessions of a subject by name, both     *)
(* when they are discovered and when -e lists them, and the files of a     *)
(* directory by name.                                                      *)
C14_SessionsLexicographic ==
    pc \in {"return", "exited"} =>
        SubjectsAndFilesInOrder(out, loc) /\ SessionsByName(out)

(* C14 as amended: in every pass the subjects are visited in the order     *)
(* given, the sessions of a subject by name when they are discovered and   *)
(* in the order of the list when -e lists them, and the files of a         *)
(* directory by name.                                                      *)
C14_SessionsAsListedOrByName ==
    pc \in {"return", "exited"} =>
        /\ SubjectsAndFilesInOrder(out, loc)
        /\ IF loc.sessions_filter = <<>>
           THEN SessionsByName(out)
           ELSE SessionsAsListed(out, loc)

\* C14's case: with -e 2 1 and two subjects a run renamed two files of
\* ses-2 and then two of ses-1 of the first subject, and then in the second
C14_Witness ==
    /\ pc = "exited"
    /\ loc.sessions_filter = <<SES2, SES1>>
    /\ \E i, j, k \in Events(out, "Renaming") :
          /\ i < j /\ j < k
          /\ out[i].a[1] = SUB1 /\ out[i].a[2] = SES2
          /\ out[j].a[1] = SUB1 /\ out[j].a[2] = SES1
          /\ out[k].a[1] = SUB2
          /\ out[i + 1].ev = "Renaming" /\ out[i + 1].a[2] = SES2


----------------------------------------------------------------------------
\* main()'s passes with locals l on tree t, left to run with nothing refused
Uninterrupted(t, l, a, sep) ==
    LET s0 == State(t, <<>>, {}, -1)
        s1 == IF l.run_rename
              THEN rename_fieldmap_files(s0, l.subjects, l.sessions_filter, a.dry_run)
              ELSE s0
    IN Updates(s1.fs, l, a, sep, {})

\* the first invocation was terminated between two of its file operations
\* and this one, the second, ran to its end
RerunAfterKill ==
    /\ runs = 1
    /\ past[1].exit_code = 137
    /\ ~argv.dry_run
    /\ pc = "exited" /\ exit_code = 0

(* C15: re-running converges after a kill: when an apply-mode run is       *)
(* terminated between two file operations and the same command is then run *)
(* to its end on the tree left behind, the final tree is the one a single  *)
(* uninterrupted run makes of the original tree.                           *)
C15_RerunConverges ==
    RerunAfterKill => fs = Uninterrupted(past[1].fs0, loc, argv, os_sep).fs


----------------------------------------------------------------------------
(* A session whose manifest lists the files of fmap/: one row for each      *)
(* regular file of fmap/, its `filename` the path below the session        *)
(* directory, as the converter writes it.                                  *)

ListedRows(k, header) ==
    LET files == sorted({n \in DOMAIN k : k[n] = "file"})
    IN [i \in 1..Len(files) |->
           [j \in 1..Len(header) |->
               IF header[j] = FILENAME THEN FMAP \o <<"/">> \o files[i] ELSE <<"a">>]]

ManifestTree(k, header) ==
    MkTree({<<<<SUB1>>, Dir>>, <<<<SUB1, SES1>>, Dir>>, <<<<SUB1, SES1, FMAP>>, Dir>>,
            <<<<SUB1, SES1, X_SCANS>>, TsvFile(header, ListedRows(k, header))>>}
           \cup {<<<<SUB1, SES1, FMAP, n>>, IF k[n] = "dir" THEN Dir ELSE RawFile(n)>> :
                    n \in DOMAIN k})

InitManifest ==
    \E k \in FmapListings, header \in {<<FILENAME>>, <<FILENAME, OP>>},
       dry \in BOOLEAN, sudo \in BOOLEAN,
       flags \in {<<FALSE, FALSE, FALSE>>, <<TRUE, TRUE, FALSE>>} :
        Start(ManifestTree(k, header), Args(<<<<"1">>>>, <<>>, B0MAP_FMAP0, dry, flags, sudo),
              "/", 1000)

SpecManifest == InitManifest /\ [][Next]_vars

\* the components of a path written with "/"
RECURSIVE split(_)
split(v) ==
    IF \A i \in 1..Len(v) : v[i] # "/" THEN <<v>>
    ELSE LET i == CHOOSE j \in 1..Len(v) : v[j] = "/" /\ \A h \in 1..(j - 1) : v[h] # "/"
         IN <<SubSeq(v, 1, i - 1)>> \o split(SubSeq(v, i + 1, Len(v)))

\* the path a `filename` value of the manifest at path m names
Named(m, v) == SubSeq(m, 1, Len(m) - 1) \o split(v)

\* the `filename` value of row i of a table
FilenameOf(node, i) ==
    node.rows[i][CHOOSE j \in 1..Len(node.header) : node.header[j] = FILENAME]

\* every `filename` value of the manifest at m names a regular file of tree t
AllNamed(t, m) ==
    \A i \in 1..Len(t[m].rows) : isfile(t, Named(m, FilenameOf(t[m], i)))

\* in its first invocation main() has run the renamer and then the
\* scan-table updater in apply mode
RenamedAndUpdated ==
    /\ runs = 0
    /\ ~argv.dry_run
    /\ pc \in {"json", "return", "exited"}
    /\ calls \in {<<"rename_fieldmap_files", "update_scans_tsv">>,
                 <<"rename_fieldmap_files", "update_scans_tsv", "update_fieldmap_json">>}

(* C16: the manifest stays consistent with the rename: when every          *)
(* `filename` value of a session's manifest names an existing file before  *)
(* the run, then after the renamer and the scan-table updater have run in  *)
(* apply mode every value still names an existing file, and it is the file *)
(* the row named before: a row has the new name exactly when its file was  *)
(* renamed to it.                                                          *)
C16_ManifestFollowsRename ==
    RenamedAndUpdated =>
        \A m \in Manifests(fs0) :
            AllNamed(fs0, m) =>
                /\ m \in Manifests(fs)
                /\ Len(fs[m].rows) = Len(fs0[m].rows)
                /\ AllNamed(fs, m)
                /\ \A i \in 1..Len(fs0[m].rows) :
                      fs[Named(m, FilenameOf(fs[m], i))]
                          = fs0[Named(m, FilenameOf(fs0[m], i))]

=============================================================================
